---- MODULE Spec2Model ----
(***************************************************************************)
(* The reservation loop of srtgo (src/srtgo/srtgo.py, reserve(), lines     *)
(* 801-904) with the helpers it calls: _reserve, pay_card, login,          *)
(* set_login, _handle_error, _sleep and _is_seat_available.                *)
(*                                                                         *)
(* One action is one call to the outside world (backend, telegram,         *)
(* operator prompt, sleep) together with the Python that runs up to the    *)
(* next such call.  pc names the call the loop is about to make.           *)
(*                                                                         *)
(* The backend clients (srt.py, ktx.py) are not part of the sources read   *)
(* here; what they return and raise is drawn nondeterministically.         *)
(* The status-line counter i_try and the elapsed time are display only     *)
(* and are not modelled.                                                   *)
(***************************************************************************)
EXTENDS Integers, Sequences, FiniteSets, TLC

\* ------------------------------------------------------------------ bounds
\* number of trains a search returns (the indices offered to the operator)
NTrains == 2
\* how many of the known substrings one error message may contain
MaxPatterns == 2
\* the largest draw of random.gammavariate considered, in 1/100 s
MaxGamma == 2
\* how many of the optional passenger classes the operator may be asked about
MaxOptional == 1
\* how many different passwords the secret store is given
MaxPasswords == 2

\* ------------------------------------------------------- values and inputs
Idx == 0 .. (NTrains - 1)

RailTypes == {"SRT", "KTX"}

\* SeatType (SRT) / ReserveOption (Korail): the four choices of q_options
SeatTypes == {"GENERAL_FIRST", "GENERAL_ONLY", "SPECIAL_FIRST", "SPECIAL_ONLY"}

\* choice["trains"]: the indices ticked in the checkbox, in list order
Selections ==
    UNION { { s \in [1 .. n -> Idx] :
                \A i, j \in 1 .. n : i # j => s[i] # s[j] } : n \in 1 .. NTrains }

\* one train of a search result: the three flags the client's predicates read
Train == [general : BOOLEAN, special : BOOLEAN, standby : BOOLEAN]

SearchResults == [Idx -> Train]

NoTrains == [i \in {} |-> FALSE]

\* no _reserve call is running: an index past the end of the result
NoTarget == NTrains

\* The substrings the handlers look for in ex.msg.  A message is modelled by
\* the set of these substrings it contains.
\*   "abnormal_access" : "정상적인 경로로 접근 부탁드립니다"
\*   "login_required"  : "로그인 후 사용하십시오"
\*   "no_seats"        : "잔여석없음"
\*   "busy"            : "사용자가 많아 접속이 원활하지 않습니다"
\*   "standby_closed"  : "예약대기 접수가 마감되었습니다"
\*   "standby_limit"   : "예약대기자한도수초과"
\*   "need_to_login"   : "Need to Login"
\*   "sold_out"        : "Sold out"
SRT_BOT == "abnormal_access"
SRT_LOGIN == "login_required"
SRT_SOLD_OUT == {"no_seats", "busy", "standby_closed", "standby_limit"}
KTX_LOGIN == "need_to_login"
KTX_SOLD_OUT == {"sold_out", "no_seats", "standby_limit"}

SRTPatterns == {SRT_BOT, SRT_LOGIN} \cup SRT_SOLD_OUT
KTXPatterns == {KTX_LOGIN} \cup KTX_SOLD_OUT

Messages(patterns) == { m \in SUBSET patterns : Cardinality(m) <= MaxPatterns }

NoEx == [type |-> "none", msg |-> {}]

\* what a call on the SRT client / the Korail client can raise
ClientErrors(rt) ==
    IF rt = "SRT"
    THEN [type : {"SRTError", "SRTNetFunnelError"}, msg : Messages(SRTPatterns)]
    ELSE [type : {"KorailError"}, msg : Messages(KTXPatterns)]

\* json.JSONDecodeError, (curl_cffi|requests) ConnectionError, any other Exception
OtherErrors == [type : {"JSONDecodeError", "ConnectionError", "Exception"}, msg : {{}}]

BackendErrors(rt) == ClientErrors(rt) \cup OtherErrors

\* telegram.error.TelegramError and the like: no SRTError, KorailError, ...
TelegramError == [type |-> "Exception", msg |-> {}]

VARIABLES
    rail_type,    \* "SRT" or "KTX"
    choice,       \* choice["trains"]
    seat_type,    \* options["type"]
    pay,          \* options["pay"]
    rail,         \* the session: [is_login]
    trains,       \* result of this cycle's search (NoTrains outside the scan)
    target,       \* the index i for which _reserve(trains[i]) is running
    reservation,  \* what rail.reserve returned to _reserve: "none", "seat"
                  \* or "waiting" (reserve.is_waiting)
    ex,           \* the exception bound in the running except clause
    pc,           \* the next call of the loop
    \* history of the running iteration of "while True":
    cat,          \* branch of the except chain taken for ex
    notified,     \* _handle_error has called tgprintf for ex
    prompted,     \* _handle_error has shown inquirer.confirm for ex
    answer,       \* the operator's answer to it
    relogged,     \* "rail = login(...)" has replaced the session since ex
    slept,        \* _sleep has run
    scanned,      \* how many elements of choice the scan evaluated
    leftOut,      \* selected indices available in this cycle's result that
                  \* the cycle ended without evaluating
    payCall,      \* what became of rail.pay_with_card
    \* history of the run:
    reserved,     \* rail.reserve has returned a reservation
    escaped,      \* which call raised the exception that left reserve()
    sigint,       \* the operator has pressed Ctrl-C (KeyboardInterrupt raised)
    searched,     \* the arguments of the latest search_train call
    \* more history of the running iteration:
    delay,        \* what _sleep slept, in 1/100 s
    cleared,      \* rail.clear() has run for ex
    \* what reserve() builds before the loop:
    info,         \* the passenger counts the operator entered, by class
    passengers,   \* the passenger list built from info
    total_count,  \* the sum of the counts in passengers
    params,       \* the keyword arguments built for search_train
    \* and one more piece of the iteration's history:
    card,         \* get_secret("card", "ok") at the payment step: "ok",
                  \* "missing", or "none" before that step
    \* the secret store (module globals and what they stand on):
    _keyring_available,
    _keyring_warning_shown,
    _fallback_store,  \* the dict service -> username -> password, as in
                      \* memory and in FALLBACK_KEYRING_FILE
    keyring_store,    \* what the system keyring holds, by << service, username >>
    \* history of the calls on the secret store:
    warnings,     \* how many times the plaintext warning was printed
    failed,       \* a keyring call has raised KeyringError
    lateCall,     \* a keyring call was made after one had failed
    written,      \* for each key set or deleted so far: what the latest of
                  \* these calls left, {} (deleted) or {password}
    got           \* << key, result >> of the latest call if it was a
                  \* get_secret, << >> otherwise

vars == << rail_type, choice, seat_type, pay, rail, trains, target, reservation,
           ex, pc, cat, notified, prompted, answer, slept, relogged, scanned,
           leftOut, reserved, payCall, escaped, sigint, searched, delay, cleared,
           info, passengers, total_count, params, card,
           _keyring_available, _keyring_warning_shown, _fallback_store,
           keyring_store, warnings, failed, lateCall, written, got >>

\* what reserve() has fixed before "while True"; the loop assigns none of it
config == << rail_type, choice, seat_type, pay, info, passengers, total_count, params >>
\* the secret store and its history
secretstore == << _keyring_available, _keyring_warning_shown, _fallback_store,
                 keyring_store, warnings, failed, lateCall, written, got >>
errhist == << cat, notified, prompted, answer, relogged >>
cycle == << trains, target, scanned, leftOut >>

\* -------------------------------------------------- SeatPolicyEvaluator
\* SRTTrain.seat_available / Korail Train.has_seat
seat_available(train) == train.general \/ train.special

\* the mutant of _is_seat_available: the "*_ONLY" test done before the
\* no-seat test
IsSeatAvailablePolicyFirst(train, st, rt) ==
    IF st = "GENERAL_ONLY" THEN train.general
    ELSE IF st = "SPECIAL_ONLY" THEN train.special
    ELSE IF ~ seat_available(train) THEN train.standby
    ELSE seat_available(train)

\* a mutant of _is_seat_available: "*_FIRST" asks for a seat of its own class
IsSeatAvailableFirstMeansOnly(train, st, rt) ==
    IF ~ seat_available(train) THEN train.standby
    ELSE IF st \in {"GENERAL_FIRST", "GENERAL_ONLY"} THEN train.general
    ELSE train.special

\* a mutant of _is_seat_available: "*_ONLY" accepts a seat of any class, as
\* "*_FIRST" does
IsSeatAvailableAnySeat(train, st, rt) ==
    IF ~ seat_available(train) THEN train.standby
    ELSE seat_available(train)

_is_seat_available(train, st, rt) ==
    IF rt = "SRT"
    THEN IF ~ seat_available(train) THEN train.standby
         ELSE IF st \in {"GENERAL_FIRST", "SPECIAL_FIRST"} THEN seat_available(train)
         ELSE IF st = "GENERAL_ONLY" THEN train.general
         ELSE train.special
    ELSE IF ~ seat_available(train) THEN train.standby
         ELSE IF st \in {"GENERAL_FIRST", "SPECIAL_FIRST"} THEN seat_available(train)
         ELSE IF st = "GENERAL_ONLY" THEN train.general
         ELSE train.special

\* ------------------------------------------------------------ the scan
\* for i in choice["trains"]: if _is_seat_available(trains[i], ...): the
\* position in choice of the first hit, 0 when the for loop runs out
RECURSIVE Scan(_, _, _, _, _)
Scan(t, ch, st, rt, k) ==
    IF k > Len(ch) THEN 0
    ELSE IF _is_seat_available(t[ch[k]], st, rt) THEN k
    ELSE Scan(t, ch, st, rt, k + 1)

\* the mutant of FirstHit: the available train of lowest index wins
FirstHitLowestIndex(t, ch, st, rt) ==
    LET hits == { k \in 1 .. Len(ch) : _is_seat_available(t[ch[k]], st, rt) }
    IN IF hits = {} THEN 0
       ELSE CHOOSE k \in hits : \A j \in hits : ch[k] <= ch[j]

FirstHit(t, ch, st, rt) == Scan(t, ch, st, rt, 1)

\* -------------------------------------------------------- ErrorClassifier
\* a mutant of Category: the SRTError clause tests the login message first
CategoryLoginFirst(e) ==
    IF e.type \in {"SRTError", "SRTNetFunnelError"}
    THEN IF SRT_LOGIN \in e.msg THEN "SessionExpired"
         ELSE IF SRT_BOT \in e.msg \/ e.type = "SRTNetFunnelError" THEN "BotDetected"
         ELSE IF ~ (\E p \in SRT_SOLD_OUT : p \in e.msg) THEN "Unclassified"
         ELSE "SoldOutTransient"
    ELSE IF e.type = "KorailError"
    THEN IF KTX_LOGIN \in e.msg THEN "SessionExpired"
         ELSE IF ~ (\E p \in KTX_SOLD_OUT : p \in e.msg) THEN "Unclassified"
         ELSE "SoldOutTransient"
    ELSE IF e.type = "JSONDecodeError" THEN "MalformedResponse"
    ELSE IF e.type = "ConnectionError" THEN "ConnectivityError"
    ELSE "Unclassified"

\* the except chain of the loop and the substring tests inside its clauses
Category(e) ==
    IF e.type \in {"SRTError", "SRTNetFunnelError"}
    THEN IF SRT_BOT \in e.msg \/ e.type = "SRTNetFunnelError" THEN "BotDetected"
         ELSE IF SRT_LOGIN \in e.msg THEN "SessionExpired"
         ELSE IF ~ (\E p \in SRT_SOLD_OUT : p \in e.msg) THEN "Unclassified"
         ELSE "SoldOutTransient"
    ELSE IF e.type = "KorailError"
    THEN IF KTX_LOGIN \in e.msg THEN "SessionExpired"
         ELSE IF ~ (\E p \in KTX_SOLD_OUT : p \in e.msg) THEN "Unclassified"
         ELSE "SoldOutTransient"
    ELSE IF e.type = "JSONDecodeError" THEN "MalformedResponse"
    ELSE IF e.type = "ConnectionError" THEN "ConnectivityError"
    ELSE "Unclassified"

\* a mutant of FirstStep: a sold-out message is taken for a lost session
FirstStepReloginOnSoldOut(c) ==
    CASE c = "BotDetected" -> "clear"
      [] c = "SessionExpired" -> "login"
      [] c = "SoldOutTransient" -> "login"
      [] c = "MalformedResponse" -> "sleep"
      [] c = "ConnectivityError" -> "handle_error"
      [] c = "Unclassified" -> "handle_error"

\* a mutant of FirstStep: the JSONDecodeError clause calls login() first
FirstStepReloginOnMalformed(c) ==
    CASE c = "BotDetected" -> "clear"
      [] c = "SessionExpired" -> "login"
      [] c = "SoldOutTransient" -> "sleep"
      [] c = "MalformedResponse" -> "login"
      [] c = "ConnectivityError" -> "handle_error"
      [] c = "Unclassified" -> "handle_error"

\* a mutant of FirstStep: the "not" of "elif not any(...)" lost, so that the
\* sold-out messages are the ones shown to the operator
FirstStepAsksOnSoldOut(c) ==
    CASE c = "BotDetected" -> "clear"
      [] c = "SessionExpired" -> "login"
      [] c = "SoldOutTransient" -> "handle_error"
      [] c = "MalformedResponse" -> "sleep"
      [] c = "ConnectivityError" -> "handle_error"
      [] c = "Unclassified" -> "sleep"

\* a mutant of FirstStep: the ConnectionError clause logs in again without
\* calling _handle_error
FirstStepSilentOnConnection(c) ==
    CASE c = "BotDetected" -> "clear"
      [] c = "SessionExpired" -> "login"
      [] c = "SoldOutTransient" -> "sleep"
      [] c = "MalformedResponse" -> "sleep"
      [] c = "ConnectivityError" -> "login"
      [] c = "Unclassified" -> "handle_error"

\* the first call of each except clause
FirstStep(c) ==
    CASE c = "BotDetected" -> "clear"
      [] c = "SessionExpired" -> "login"
      [] c = "SoldOutTransient" -> "sleep"
      [] c = "MalformedResponse" -> "sleep"
      [] c = "ConnectivityError" -> "handle_error"
      [] c = "Unclassified" -> "handle_error"

\* an exception raised inside the try block: Python picks the except clause
Raise(e) ==
    /\ ex' = e
    /\ cat' = Category(e)
    /\ pc' = FirstStep(Category(e))
    /\ notified' = FALSE
    /\ prompted' = FALSE
    /\ answer' = "none"
    /\ relogged' = FALSE
    /\ trains' = NoTrains
    /\ target' = NoTarget
    /\ reservation' = "none"

Terminal == {"success", "aborted", "crashed", "login_aborted", "interrupted"}

\* ------------------------------------------- passengers and parameters
\* the keys of passenger_classes, in the order of the dict
PassengerKeys == << "adult", "child", "senior", "disability1to3", "disability4to6" >>

\* the sets of optional classes the operator is asked about ("if key in
\* options"), among the first MaxOptional of them
AskedSets == SUBSET { PassengerKeys[k] : k \in 2 .. (1 + MaxOptional) }

\* each count question offers choices=range(10)
MaxCount == 9

\* what inquirer.prompt can return for the count questions
Infos == UNION { [ {"adult"} \cup asked -> 0 .. MaxCount ] : asked \in AskedSets }

\* "for key, cls in passenger_classes.items(): if key in info and
\* info[key] > 0: passengers.append(cls(info[key]))", from key number k on
RECURSIVE PassengerList(_, _)
PassengerList(inf, k) ==
    IF k > Len(PassengerKeys) THEN << >>
    ELSE LET key == PassengerKeys[k]
         IN IF key \in DOMAIN inf /\ inf[key] > 0
            THEN << [cls |-> key, count |-> inf[key]] >> \o PassengerList(inf, k + 1)
            ELSE PassengerList(inf, k + 1)

\* "total_count += info[key]" for every passenger appended
RECURSIVE SumCounts(_)
SumCounts(ps) == IF ps = << >> THEN 0 ELSE Head(ps).count + SumCounts(Tail(ps))

\* "if total_count >= 10"
PassengerLimit == 10

\* a mutant of PassengersAccepted: ten passengers pass, as the message
\* ("cannot exceed 10") would have it
PassengersAcceptedUpToTen(ps, total) == ps # << >> /\ ~ (total > PassengerLimit)

\* reserve() goes on after "if not passengers: return" and
\* "if total_count >= 10: return"
PassengersAccepted(ps, total) == ps # << >> /\ ~ (total >= PassengerLimit)

\* params: "passengers": [passenger_classes["adult"](total_count)] and the
\* provider's flag; dep, arr, date and time are taken from info as they are
BuildParams(total, rt) ==
    [passengers |-> << [cls |-> "adult", count |-> total] >>,
     flag |-> IF rt = "SRT" THEN "available_only=False" ELSE "include_no_seats=True"]

\* no params built, no search_train call made
NoParams == [passengers |-> << >>, flag |-> "none"]

\* a mutant of SearchArgs: the poll in the loop leaves the provider's flag
\* at its default
SearchArgsDefaultFlag(p) == [p EXCEPT !.flag = "none"]

\* rail.search_train(**params): the dict is passed as it was built
SearchArgs(p) == p

\* ----------------------------------------------------- the secret store
\* the services and usernames of the calls considered: the credentials of
\* one provider
Services == {"SRT"}
Usernames == {"id", "pass"}
Keys == Services \X Usernames
Passwords == 1 .. MaxPasswords

\* Python dicts with keys in D and values in R; an Optional[str] result is
\* {} for None and {password} otherwise
Dicts(D, R) == UNION { [S -> R] : S \in SUBSET D }
EmptyDict == [x \in {} |-> x]
Put(d, k, v) == [x \in DOMAIN d \cup {k} |-> IF x = k THEN v ELSE d[x]]
Pop(d, k) == [x \in DOMAIN d \ {k} |-> d[x]]

\* what FALLBACK_KEYRING_FILE can hold when the process starts
FallbackStores == Dicts(Services, Dicts(Usernames, Passwords))
\* what the system keyring can hold when the process starts
KeyringStores == Dicts(Keys, Passwords)

\* keyring.get_password: None for an entry that is not there
get_password(kr, service, username) ==
    IF << service, username >> \in DOMAIN kr THEN {kr[<< service, username >>]} ELSE {}

\* store.get(service, {}).get(username)
_fallback_get(store, service, username) ==
    IF service \in DOMAIN store /\ username \in DOMAIN store[service]
    THEN {store[service][username]}
    ELSE {}

\* store.setdefault(service, {})[username] = password, then save
_fallback_set(store, service, username, password) ==
    LET service_store == IF service \in DOMAIN store THEN store[service] ELSE EmptyDict
    IN Put(store, service, Put(service_store, username, password))

\* "if not service_store: return"; service_store.pop(username, None);
\* "if not service_store: store.pop(service, None)"; then save
_fallback_delete(store, service, username) ==
    IF service \notin DOMAIN store \/ store[service] = EmptyDict
    THEN store
    ELSE LET service_store == Pop(store[service], username)
         IN IF service_store = EmptyDict
            THEN Pop(store, service)
            ELSE Put(store, service, service_store)

\* a mutant of AvailableAfterError: the except clause leaves the flag alone
AvailableAfterErrorStill == TRUE

\* "_keyring_available = False" in the except clause of the three calls
AvailableAfterError == FALSE

\* the module globals as the import leaves them, the stores empty, no call
\* made: the loop model draws what it reads from the store (credentials,
\* card flag) as outcomes of login and payment and does not touch it
StoreFresh ==
    /\ _keyring_available = TRUE
    /\ _keyring_warning_shown = FALSE
    /\ _fallback_store = EmptyDict
    /\ keyring_store = EmptyDict
    /\ warnings = 0
    /\ failed = FALSE
    /\ lateCall = FALSE
    /\ written = EmptyDict
    /\ got = << >>

\* ---------------------------------------------------------------- Init
\* the state at "while True": login() has returned, the operator has chosen
Init ==
    /\ rail_type \in RailTypes
    /\ choice \in Selections
    /\ seat_type \in SeatTypes
    /\ pay \in BOOLEAN
    /\ rail = [is_login |-> TRUE]
    /\ trains = NoTrains
    /\ target = NoTarget
    /\ reservation = "none"
    /\ ex = NoEx
    /\ pc = "loop"
    /\ cat = "None"
    /\ notified = FALSE
    /\ prompted = FALSE
    /\ answer = "none"
    /\ slept = FALSE
    /\ relogged = FALSE
    /\ scanned = 0
    /\ leftOut = {}
    /\ reserved = FALSE
    /\ payCall = "none"
    /\ escaped = "none"
    /\ sigint = FALSE
    /\ delay = 0
    /\ cleared = FALSE
    /\ info = [adult |-> 1]
    /\ passengers = PassengerList(info, 1)
    /\ total_count = SumCounts(passengers)
    /\ params = BuildParams(total_count, rail_type)
    /\ searched = params
    /\ card = "none"
    /\ StoreFresh







\* ------------------------------------------------------- the try block
\* the head of an iteration: i_try += 1 and the status line.  The history
\* of the previous iteration ends here.
Status ==
    /\ pc = "loop"
    /\ pc' = "search"
    /\ cat' = "None"
    /\ notified' = FALSE
    /\ prompted' = FALSE
    /\ answer' = "none"
    /\ relogged' = FALSE
    /\ slept' = FALSE
    /\ scanned' = 0
    /\ leftOut' = {}
    /\ payCall' = "none"
    /\ delay' = 0
    /\ cleared' = FALSE
    /\ card' = "none"
    /\ UNCHANGED << config, rail, trains, target, reservation, ex, reserved,
                    escaped, sigint, searched, secretstore >>

\* trains = rail.search_train(**params) returns; the for loop scans choice
SearchReturns ==
    /\ pc = "search"
    /\ \E t \in SearchResults :
         LET k == FirstHit(t, choice, seat_type, rail_type)
         IN /\ trains' = t
            /\ scanned' = IF k = 0 THEN Len(choice) ELSE k
            /\ target' = IF k = 0 THEN NoTarget ELSE choice[k]
            /\ pc' = IF k = 0 THEN "sleep" ELSE "reserve"
    /\ searched' = SearchArgs(params)
    /\ UNCHANGED << card, config, rail, reservation, ex, errhist, slept, leftOut,
                    reserved, payCall, escaped, sigint, delay, cleared,
                    secretstore >>

\* rail.search_train raises
SearchRaises ==
    /\ pc = "search"
    /\ \E e \in BackendErrors(rail_type) : Raise(e)
    /\ searched' = SearchArgs(params)
    /\ UNCHANGED << card, config, rail, slept, scanned, leftOut, reserved,
                    payCall, escaped, sigint, delay, cleared, secretstore >>

\* the selected indices after the scan position that the scan would have hit
Unscanned(t, ch, st, rt, n) ==
    { ch[k] : k \in { j \in (n + 1) .. Len(ch) : _is_seat_available(t[ch[j]], st, rt) } }

\* _reserve: rail.reserve(train, ...) returns a reservation
ReserveReturns ==
    /\ pc = "reserve"
    /\ reservation' \in {"seat", "waiting"}
    /\ reserved' = TRUE
    /\ leftOut' = Unscanned(trains, choice, seat_type, rail_type, scanned)
    /\ trains' = NoTrains
    /\ pc' = "pay"
    /\ UNCHANGED << card, config, rail, target, ex, errhist, slept, scanned,
                    payCall, escaped, sigint, searched, delay, cleared,
                    secretstore >>

\* _reserve: rail.reserve(train, ...) raises
ReserveRaises ==
    /\ pc = "reserve"
    /\ \E e \in BackendErrors(rail_type) : Raise(e)
    /\ leftOut' = Unscanned(trains, choice, seat_type, rail_type, scanned)
    /\ UNCHANGED << card, config, rail, slept, scanned, reserved, payCall,
                    escaped, sigint, searched, delay, cleared, secretstore >>

\* a mutant of PayCallMade: reserve.is_waiting is not tested
PayCallMadeAlsoWaiting(p, waiting, cardOk) == p /\ cardOk

\* rail.pay_with_card is called when options["pay"] and not
\* reserve.is_waiting hold and, inside pay_card, get_secret("card", "ok")
PayCallMade(p, waiting, cardOk) == p /\ ~ waiting /\ cardOk

\* options["pay"] and not reserve.is_waiting and pay_card(...): the call is
\* not made when pay is off, the reservation is a waiting one, or
\* get_secret("card", "ok") is empty
PaySkipped ==
    /\ pc = "pay"
    /\ \E cardOk \in BOOLEAN :
         /\ ~ PayCallMade(pay, reservation = "waiting", cardOk)
         /\ card' = IF cardOk THEN "ok" ELSE "missing"
    /\ payCall' = "skipped"
    /\ pc' = "notify"
    /\ UNCHANGED << config, rail, cycle, reservation, ex, errhist, slept,
                    reserved, escaped, sigint, searched, delay, cleared,
                    secretstore >>

\* rail.pay_with_card returns True or False
PayReturns ==
    /\ pc = "pay"
    /\ PayCallMade(pay, reservation = "waiting", TRUE)
    /\ \E ok \in BOOLEAN : payCall' = IF ok THEN "paid" ELSE "refused"
    /\ pc' = "notify"
    /\ card' = "ok"
    /\ UNCHANGED << config, rail, cycle, reservation, ex, errhist, slept,
                    reserved, escaped, sigint, searched, delay, cleared,
                    secretstore >>

\* rail.pay_with_card raises
PayRaises ==
    /\ pc = "pay"
    /\ PayCallMade(pay, reservation = "waiting", TRUE)
    /\ \E e \in BackendErrors(rail_type) : Raise(e)
    /\ payCall' = "raised"
    /\ card' = "ok"
    /\ UNCHANGED << config, rail, slept, scanned, leftOut, reserved, escaped,
                    sigint, searched, delay, cleared, secretstore >>

\* asyncio.run(tgprintf(msg)) of _reserve returns; reserve() returns
NotifySuccess ==
    /\ pc = "notify"
    /\ pc' = "success"
    /\ UNCHANGED << card, config, rail, cycle, reservation, ex, errhist, slept,
                    reserved, payCall, escaped, sigint, searched, delay, cleared,
                    secretstore >>

\* asyncio.run(tgprintf(msg)) of _reserve raises
NotifySuccessRaises ==
    /\ pc = "notify"
    /\ Raise(TelegramError)
    /\ UNCHANGED << card, config, rail, slept, scanned, leftOut, reserved,
                    payCall, escaped, sigint, searched, delay, cleared,
                    secretstore >>

\* RESERVE_INTERVAL_MIN = 0.25 (seconds), here in 1/100 s
RESERVE_INTERVAL_MIN == 25

\* what random.gammavariate(RESERVE_INTERVAL_SHAPE, RESERVE_INTERVAL_SCALE)
\* can return: a non-negative time
GammaDraws == 0 .. MaxGamma

\* a mutant of SleepDelay: the floor is not added
SleepDelayNoFloor(g) == g

\* the argument of time.sleep in _sleep
SleepDelay(g) == g + RESERVE_INTERVAL_MIN

\* _sleep(): at the end of the try block, at the end of the SRTError and
\* KorailError clauses, and first in the JSONDecodeError clause
Sleep ==
    /\ pc = "sleep"
    /\ slept' = TRUE
    /\ IF ex.type = "JSONDecodeError"
       THEN pc' = "login" /\ ex' = ex
       ELSE pc' = "loop" /\ ex' = NoEx
    /\ trains' = NoTrains
    /\ target' = NoTarget
    /\ \E g \in GammaDraws : delay' = SleepDelay(g)
    /\ UNCHANGED << card, config, rail, reservation, errhist, scanned, leftOut,
                    reserved, payCall, escaped, sigint, searched, cleared,
                    secretstore >>

\* ---------------------------------------------------- the except clauses
\* rail.clear() in the first branch of the SRTError clause, then _sleep()
Clear ==
    /\ pc = "clear"
    /\ pc' = "sleep"
    /\ cleared' = TRUE
    /\ UNCHANGED << card, config, rail, cycle, reservation, ex, errhist, slept,
                    reserved, payCall, escaped, sigint, searched, delay,
                    secretstore >>

\* _handle_error: print(msg), then asyncio.run(tgprintf(msg)) returns
HandleErrorNotify ==
    /\ pc = "handle_error"
    /\ notified' = TRUE
    /\ pc' = "confirm"
    /\ UNCHANGED << card, config, rail, cycle, reservation, ex, cat, prompted,
                    answer, relogged, slept, reserved, payCall, escaped, sigint,
                    searched, delay, cleared, secretstore >>

\* _handle_error: asyncio.run(tgprintf(msg)) raises, inside the except
\* clause, so that no clause of the loop catches it
HandleErrorNotifyRaises ==
    /\ pc = "handle_error"
    /\ notified' = TRUE
    /\ pc' = "crashed"
    /\ escaped' = "handle_error"
    /\ UNCHANGED << card, config, rail, cycle, reservation, ex, cat, prompted,
                    answer, relogged, slept, reserved, payCall, sigint, searched,
                    delay, cleared, secretstore >>

\* where an except clause goes when _handle_error returned True: the
\* SRTError and KorailError clauses fall through to _sleep(), the
\* ConnectionError and Exception clauses call login()
\* a mutant of AfterContinue: every clause falls through to _sleep()
AfterContinueAlwaysSleeps(e) == "sleep"

AfterContinue(e) ==
    IF e.type \in {"SRTError", "SRTNetFunnelError", "KorailError"} THEN "sleep" ELSE "login"

\* a mutant of AfterConfirm: the answer is not tested
AfterConfirmIgnoresAnswer(e, ans) == AfterContinue(e)

\* "if not _handle_error(ex): return"
AfterConfirm(e, ans) == IF ans THEN AfterContinue(e) ELSE "aborted"

\* _handle_error: return inquirer.confirm(message="계속할까요", default=True)
Confirm ==
    /\ pc = "confirm"
    /\ prompted' = TRUE
    /\ \E ans \in BOOLEAN :
         /\ answer' = IF ans THEN "yes" ELSE "no"
         /\ pc' = AfterConfirm(ex, ans)
    /\ UNCHANGED << card, config, rail, cycle, reservation, ex, cat, notified,
                    relogged, slept, reserved, payCall, escaped, sigint, searched,
                    delay, cleared, secretstore >>

\* ---------------------------------------------------------------- login
\* a mutant of LoginAccepts: login() returns the client whatever is_login says
LoginAcceptsAnything(r) == TRUE

\* a mutant of LoginAccepts: the test of is_login is inverted
LoginAcceptsInvalid(r) == ~ r.is_login

\* login(): "if hasattr(rail, "is_login") and not rail.is_login" sends the
\* operator to set_login; otherwise rail is returned
LoginAccepts(r) == r.is_login

\* a mutant of AfterLogin: the "Need to Login" branches end the iteration
\* like the other clauses that log in, without _sleep()
AfterLoginSkipsSleep(c, r) == "loop"

\* where the loop goes when "rail = login(...)" has returned r: the
\* "로그인 후 사용하십시오" and "Need to Login" branches test
\* "not rail.is_login and not _handle_error(ex)" and then _sleep(); the
\* JSONDecodeError, ConnectionError and Exception clauses end the iteration
AfterLogin(c, r) ==
    IF c = "SessionExpired"
    THEN IF ~ r.is_login THEN "handle_error" ELSE "sleep"
    ELSE "loop"

\* login(): rail_cls(user_id, password) returns a client
LoginConstructs ==
    /\ pc = "login"
    /\ \E valid \in BOOLEAN :
         LET r == [is_login |-> valid]
         IN IF LoginAccepts(r)
            THEN /\ rail' = r
                 /\ relogged' = TRUE
                 /\ pc' = AfterLogin(cat, r)
                 /\ ex' = IF AfterLogin(cat, r) = "loop" THEN NoEx ELSE ex
            ELSE /\ pc' = "set_login"
                 /\ UNCHANGED << rail, relogged, ex >>
    /\ UNCHANGED << card, config, cycle, reservation, cat, notified, prompted,
                    answer, slept, reserved, payCall, escaped, sigint, searched,
                    delay, cleared, secretstore >>

\* login(): rail_cls(user_id, password) raises SRTError, which login catches
LoginRaisesSRTError ==
    /\ pc = "login"
    /\ rail_type = "SRT"
    /\ pc' = "set_login"
    /\ UNCHANGED << card, config, rail, cycle, reservation, ex, errhist, slept,
                    reserved, payCall, escaped, sigint, searched, delay, cleared,
                    secretstore >>

\* what the constructor can raise that "except SRTError" in login() and
\* "except (SRTError, KorailError)" in set_login() do not catch
Uncaught(rt, caught) == { e \in BackendErrors(rt) : e.type \notin caught /\ e.msg = {} }

\* login(): rail_cls(user_id, password) raises anything else; the call is
\* made inside an except clause of the loop, so the exception leaves reserve()
LoginRaisesOther ==
    /\ pc = "login"
    /\ \E e \in Uncaught(rail_type, {"SRTError", "SRTNetFunnelError"}) : ex' = e
    /\ pc' = "crashed"
    /\ escaped' = "login"
    /\ UNCHANGED << card, config, rail, cycle, reservation, errhist, slept,
                    reserved, payCall, sigint, searched, delay, cleared,
                    secretstore >>

\* set_login(): the operator cancels the prompt, or the client built from the
\* new credentials fails to log in: returns False and login raises click.Abort
SetLoginFails ==
    /\ pc = "set_login"
    /\ pc' = "login_aborted"
    /\ UNCHANGED << card, config, rail, cycle, reservation, ex, errhist, slept,
                    reserved, payCall, escaped, sigint, searched, delay, cleared,
                    secretstore >>

\* set_login(): the client built from the new credentials is logged in:
\* returns True and login() calls itself
SetLoginOk ==
    /\ pc = "set_login"
    /\ pc' = "login"
    /\ UNCHANGED << card, config, rail, cycle, reservation, ex, errhist, slept,
                    reserved, payCall, escaped, sigint, searched, delay, cleared,
                    secretstore >>

\* set_login(): the constructor raises what set_login does not catch
SetLoginRaisesOther ==
    /\ pc = "set_login"
    /\ \E e \in Uncaught(rail_type, {"SRTError", "SRTNetFunnelError", "KorailError"}) : ex' = e
    /\ pc' = "crashed"
    /\ escaped' = "set_login"
    /\ UNCHANGED << card, config, rail, cycle, reservation, errhist, slept,
                    reserved, payCall, sigint, searched, delay, cleared,
                    secretstore >>

\* ------------------------------------------------------------ interrupt
\* Ctrl-C raises KeyboardInterrupt in whatever call is running
KeyboardInterrupt == [type |-> "KeyboardInterrupt", msg |-> {}]

\* the calls that run inside the try block; _sleep() runs there when no
\* exception is being handled
InTry(p, e) ==
    p \in {"loop", "search", "reserve", "pay", "notify"} \/ (p = "sleep" /\ e = NoEx)

\* a mutant of Caught: the last clause catches BaseException
CaughtBaseException(e) == TRUE

\* the widest clause of the chain is "except Exception"; KeyboardInterrupt
\* derives from BaseException, so no clause of the loop matches it
Caught(e) == e.type # "KeyboardInterrupt"

\* the exception leaves the try block or the running except clause and
\* reserve() with it, unless a clause of the chain catches it
Interrupt ==
    /\ pc \notin Terminal
    /\ sigint' = TRUE
    /\ IF InTry(pc, ex) /\ Caught(KeyboardInterrupt)
       THEN Raise(KeyboardInterrupt)
       ELSE /\ pc' = "interrupted"
            /\ trains' = NoTrains
            /\ target' = NoTarget
            /\ UNCHANGED << reservation, ex, errhist >>
    /\ UNCHANGED << card, config, rail, scanned, leftOut, slept, reserved,
                    payCall, escaped, searched, delay, cleared, secretstore >>

Next == Status \/ SearchReturns \/ SearchRaises \/ ReserveReturns \/ ReserveRaises
        \/ PaySkipped \/ PayReturns \/ PayRaises
        \/ NotifySuccess \/ NotifySuccessRaises \/ Sleep
        \/ Clear \/ HandleErrorNotify \/ HandleErrorNotifyRaises \/ Confirm
        \/ LoginConstructs \/ LoginRaisesSRTError \/ LoginRaisesOther
        \/ SetLoginFails \/ SetLoginOk \/ SetLoginRaisesOther
        \/ Interrupt

Spec == Init /\ [][Next]_vars

\* ===================================================================
\* reserve() from the passenger counts to "while True"
\* ===================================================================
\* everything the loop keeps: untouched before the loop starts
loopstate == << rail, trains, target, reservation, ex, errhist, slept, scanned,
               leftOut, payCall, reserved, sigint, delay, cleared, card >>

\* info = inquirer.prompt(q_info) has returned the counts
InitEntry ==
    /\ rail_type \in RailTypes
    /\ info \in Infos
    /\ passengers = << >>
    /\ total_count = 0
    /\ params = NoParams
    /\ searched = NoParams
    /\ choice = << >>
    /\ seat_type = "none"
    /\ pay = FALSE
    /\ pc = "passengers"
    /\ rail = [is_login |-> TRUE]
    /\ trains = NoTrains
    /\ target = NoTarget
    /\ reservation = "none"
    /\ ex = NoEx
    /\ cat = "None"
    /\ notified = FALSE
    /\ prompted = FALSE
    /\ answer = "none"
    /\ slept = FALSE
    /\ relogged = FALSE
    /\ scanned = 0
    /\ leftOut = {}
    /\ reserved = FALSE
    /\ payCall = "none"
    /\ escaped = "none"
    /\ sigint = FALSE
    /\ delay = 0
    /\ cleared = FALSE
    /\ card = "none"
    /\ StoreFresh

\* "Build passenger list", "Validate passenger count", then params
BuildPassengers ==
    /\ pc = "passengers"
    /\ passengers' = PassengerList(info, 1)
    /\ total_count' = SumCounts(passengers')
    /\ IF PassengersAccepted(passengers', total_count')
       THEN /\ params' = BuildParams(total_count', rail_type)
            /\ pc' = "initial_search"
       ELSE /\ params' = params
            /\ pc' = "returned"
    /\ UNCHANGED << rail_type, info, choice, seat_type, pay, escaped, loopstate,
                    searched, secretstore >>

\* trains = rail.search_train(**params) returns; "if not trains: return"
InitialSearchReturns ==
    /\ pc = "initial_search"
    /\ searched' = SearchArgs(params)
    /\ \E found \in BOOLEAN : pc' = IF found THEN "choose" ELSE "returned"
    /\ UNCHANGED << config, escaped, loopstate, secretstore >>

\* rail.search_train(**params) raises: no try block around it
InitialSearchRaises ==
    /\ pc = "initial_search"
    /\ searched' = SearchArgs(params)
    /\ pc' = "crashed"
    /\ escaped' = "initial_search"
    /\ UNCHANGED << config, loopstate, secretstore >>

\* choice = inquirer.prompt(q_choice);
\* "if choice is None or not choice["trains"]: return"
ChooseTrains ==
    /\ pc = "choose"
    /\ \E c \in Selections \cup { << >> } :
         /\ choice' = c
         /\ pc' = IF c = << >> THEN "returned" ELSE "options"
    /\ UNCHANGED << rail_type, seat_type, pay, info, passengers, total_count,
                    params, escaped, loopstate, searched, secretstore >>

\* options = inquirer.prompt(q_options); "if options is None: return";
\* then the loop starts
ChooseOptions ==
    /\ pc = "options"
    /\ \E cancelled \in BOOLEAN :
         IF cancelled
         THEN pc' = "returned" /\ UNCHANGED << seat_type, pay >>
         ELSE /\ seat_type' \in SeatTypes
              /\ pay' \in BOOLEAN
              /\ pc' = "loop"
    /\ UNCHANGED << rail_type, choice, info, passengers, total_count, params,
                    escaped, loopstate, searched, secretstore >>

NextEntry == BuildPassengers \/ InitialSearchReturns \/ InitialSearchRaises
             \/ ChooseTrains \/ ChooseOptions

SpecEntry == InitEntry /\ [][NextEntry]_vars

\* ===================================================================
\* get_secret, set_secret, delete_secret in any order
\* ===================================================================
\* the process has imported the module; the keyring and the fallback file
\* hold whatever earlier runs left; reserve() is not running
InitStore ==
    /\ _keyring_available = TRUE
    /\ _keyring_warning_shown = FALSE
    /\ _fallback_store \in FallbackStores
    /\ keyring_store \in KeyringStores
    /\ warnings = 0
    /\ failed = FALSE
    /\ lateCall = FALSE
    /\ written = EmptyDict
    /\ got = << >>
    /\ pc = "secrets"
    /\ rail_type = "SRT"
    /\ info = EmptyDict
    /\ passengers = << >>
    /\ total_count = 0
    /\ params = NoParams
    /\ searched = NoParams
    /\ choice = << >>
    /\ seat_type = "none"
    /\ pay = FALSE
    /\ rail = [is_login |-> FALSE]
    /\ trains = NoTrains
    /\ target = NoTarget
    /\ reservation = "none"
    /\ ex = NoEx
    /\ cat = "None"
    /\ notified = FALSE
    /\ prompted = FALSE
    /\ answer = "none"
    /\ slept = FALSE
    /\ relogged = FALSE
    /\ scanned = 0
    /\ leftOut = {}
    /\ reserved = FALSE
    /\ payCall = "none"
    /\ escaped = "none"
    /\ sigint = FALSE
    /\ delay = 0
    /\ cleared = FALSE
    /\ card = "none"

\* what the store calls leave alone
nostore == << config, loopstate, pc, escaped, searched >>

\* the keyring call of a store function returns
KeyringAnswers ==
    /\ lateCall' = (lateCall \/ failed)
    /\ UNCHANGED << _keyring_available, _keyring_warning_shown, warnings, failed >>

\* the keyring call raises NoKeyringError or KeyringError:
\* "_keyring_available = False; _warn_keyring_failure(exc)"
KeyringFails ==
    /\ lateCall' = (lateCall \/ failed)
    /\ failed' = TRUE
    /\ _keyring_available' = AvailableAfterError
    /\ _keyring_warning_shown' = TRUE
    /\ warnings' = IF _keyring_warning_shown THEN warnings ELSE warnings + 1

\* "if _keyring_available" is false: no keyring call
KeyringSkipped ==
    UNCHANGED << _keyring_available, _keyring_warning_shown, warnings, failed, lateCall >>

\* get_secret(service, username)
GetSecret ==
    /\ pc = "secrets"
    /\ \E key \in Keys, raises \in BOOLEAN :
         /\ raises => _keyring_available
         /\ IF _keyring_available /\ ~ raises
            THEN /\ KeyringAnswers
                 /\ got' = << key, get_password(keyring_store, key[1], key[2]) >>
            ELSE /\ IF raises THEN KeyringFails ELSE KeyringSkipped
                 /\ got' = << key, _fallback_get(_fallback_store, key[1], key[2]) >>
    /\ UNCHANGED << _fallback_store, keyring_store, written, nostore >>

\* set_secret(service, username, password)
SetSecret ==
    /\ pc = "secrets"
    /\ \E key \in Keys, password \in Passwords, raises \in BOOLEAN :
         /\ raises => _keyring_available
         /\ IF _keyring_available /\ ~ raises
            THEN /\ KeyringAnswers
                 /\ keyring_store' = Put(keyring_store, key, password)
                 /\ UNCHANGED _fallback_store
            ELSE /\ IF raises THEN KeyringFails ELSE KeyringSkipped
                 /\ _fallback_store' =
                        _fallback_set(_fallback_store, key[1], key[2], password)
                 /\ UNCHANGED keyring_store
         /\ written' = Put(written, key, {password})
    /\ got' = << >>
    /\ UNCHANGED nostore

\* delete_secret(service, username)
DeleteSecret ==
    /\ pc = "secrets"
    /\ \E key \in Keys, raises \in BOOLEAN :
         /\ raises => _keyring_available
         /\ IF _keyring_available /\ ~ raises
            THEN /\ KeyringAnswers
                 /\ keyring_store' = Pop(keyring_store, key)
                 /\ UNCHANGED _fallback_store
            ELSE /\ IF raises THEN KeyringFails ELSE KeyringSkipped
                 /\ _fallback_store' = _fallback_delete(_fallback_store, key[1], key[2])
                 /\ UNCHANGED keyring_store
         /\ written' = Put(written, key, {})
    /\ got' = << >>
    /\ UNCHANGED nostore

NextStore == GetSecret \/ SetSecret \/ DeleteSecret

SpecStore == InitStore /\ [][NextStore]_vars

\* ===================================================================
\* Properties
\* ===================================================================
Qualifies(i) == _is_seat_available(trains[i], seat_type, rail_type)

\* C1: in a poll cycle whose search succeeded, the reserve call is issued
\* for the qualifying index that comes first in the list order of the
\* Selection (no earlier element of the list qualifies), and the cycle goes
\* to _sleep without a reserve call only when no selected index qualifies.
C1_FirstInListOrder ==
    /\ pc = "reserve" =>
         \E k \in 1 .. Len(choice) :
            /\ target = choice[k]
            /\ Qualifies(choice[k])
            /\ \A j \in 1 .. (k - 1) : ~ Qualifies(choice[j])
    /\ (pc = "sleep" /\ DOMAIN trains # {}) =>
         \A k \in 1 .. Len(choice) : ~ Qualifies(choice[k])

\* C1 witness: the reserve call is about to be issued for an index while a
\* lower index, later in the list, qualifies too.
C1_Witness ==
    /\ pc = "reserve"
    /\ \E j \in 1 .. Len(choice) : choice[j] < target /\ Qualifies(choice[j])

\* C2 (as claimed): selected indices that qualify in the cycle's search result
\* are left unevaluated only behind a committed reservation.  The formula is
\* implied by the claim: it only asks that some reservation has been committed
\* in the run when a cycle has left a qualifying index out.
C2_NoEligibleSkipped == leftOut # {} => reserved

\* C3 (as claimed): once rail.reserve has returned, whatever the payment
\* attempt does, the run goes on to the success notification and the return;
\* the step taken from the payment never leads to an except clause.
C3_PayNeverDiverts == [][pc = "pay" => pc' \in {"notify", "interrupted"}]_vars

\* C4 (as claimed): no error raised by a backend call of the loop, the
\* re-authentication of the recovery included, leaves reserve() uncaught.
C4_NoBackendErrorEscapes == escaped \notin {"login", "set_login"}

\* C5 (as claimed): the loop returns aborted only after an Unclassified error
\* that the operator declined to continue past.
C5_AbortOnlyUnclassified == pc = "aborted" => (cat = "Unclassified" /\ answer = "no")

\* C5 (amended): the loop returns aborted only after an error classified
\* Unclassified or ConnectivityError, for which the continue prompt was shown
\* and answered "no".
C5_AbortOnlyDeclined ==
    pc = "aborted" =>
        /\ cat \in {"Unclassified", "ConnectivityError"}
        /\ prompted
        /\ answer = "no"

\* C5 witness: a run aborted on a declined ConnectivityError.
C5_Witness == pc = "aborted" /\ cat = "ConnectivityError" /\ answer = "no"

\* C6: when the operator answers "no" to the prompt of an Unclassified error
\* the loop returns aborted, and from there it takes no further step: no
\* search, reserve or login call follows.
C6_DeclineAborts ==
    [][ /\ (pc = "confirm" /\ cat = "Unclassified" /\ answer' = "no") => pc' = "aborted"
        /\ pc # "aborted" ]_vars

\* C6 witness: an Unclassified error declined by the operator.
C6_Witness == pc = "aborted" /\ cat = "Unclassified" /\ answer = "no" /\ prompted

\* C7: after an error classified SessionExpired, once login() has returned
\* the new session, the loop is on its way to the next iteration and nowhere
\* else: it has not returned, no continue prompt was shown, the session is
\* logged in, and the head of the loop is reached only after _sleep.
C7_SessionExpiredResumes ==
    (cat = "SessionExpired" /\ relogged) =>
        /\ pc \in {"sleep", "loop", "interrupted"}
        /\ ~ prompted
        /\ rail.is_login
        /\ pc = "loop" => slept

\* C7 witness: the loop is about to poll again on the new session after a
\* SessionExpired error and a sleep.
C7_Witness ==
    /\ pc = "loop"
    /\ cat = "SessionExpired"
    /\ relogged
    /\ slept

\* the handling of an error is over: the except clause has ended the
\* iteration or has returned
Handled == {"loop", "aborted"}

\* C8 (as claimed): when the handling of an error classified SessionExpired,
\* MalformedResponse, ConnectivityError or Unclassified is over (the loop is
\* back at its head, or has ended), a notification was sent for it.
C8_NotifiedUnlessSoldOutOrBot ==
    (pc \in Handled /\ cat \in {"SessionExpired", "MalformedResponse",
                                "ConnectivityError", "Unclassified"}) => notified

\* C8 (amended): a notification is sent for an error classified
\* ConnectivityError or Unclassified as the first step of its handling, and
\* for no error classified SessionExpired, MalformedResponse,
\* SoldOutTransient or BotDetected.
C8_NotifiedIffOperatorAsked ==
    /\ (cat \in {"ConnectivityError", "Unclassified"}
          /\ pc \notin {"handle_error", "interrupted"}) => notified
    /\ cat \in {"SessionExpired", "MalformedResponse",
                "SoldOutTransient", "BotDetected"} => ~ notified

\* C8 witness: back at the head of the loop after a notified ConnectivityError.
C8_Witness == pc = "loop" /\ cat = "ConnectivityError" /\ notified

\* C9: the continue prompt is shown only for an error classified Unclassified
\* or ConnectivityError.
C9_PromptOnlyUnclassifiedOrConnectivity ==
    (prompted \/ pc = "confirm") => cat \in {"Unclassified", "ConnectivityError"}

\* C9 witness: the prompt was shown for an Unclassified error of the client
\* and answered "yes".
C9_Witness == prompted /\ cat = "Unclassified" /\ answer = "yes" /\ pc = "sleep"

\* C10: a train with no seat of any class is reservable exactly when its
\* waiting list is open, under each of the four policies and on both
\* provider branches.
C10_NoSeatIsStandby ==
    \A i \in DOMAIN trains :
        ~ seat_available(trains[i]) =>
            \A st \in SeatTypes, rt \in RailTypes :
                _is_seat_available(trains[i], st, rt) = trains[i].standby

\* C10 witness: the loop reserves a train without seats whose waiting list is
\* open, under a "*_ONLY" policy.
C10_Witness ==
    /\ pc = "reserve"
    /\ seat_type \in {"GENERAL_ONLY", "SPECIAL_ONLY"}
    /\ ~ seat_available(trains[target])
    /\ trains[target].standby

\* C11: a train with a seat of any class is reservable under GENERAL_FIRST and
\* under SPECIAL_FIRST on both provider branches, whichever class holds the
\* seat and whatever the waiting-list flag.
C11_AnySeatUnderFirst ==
    \A i \in DOMAIN trains :
        seat_available(trains[i]) =>
            \A st \in {"GENERAL_FIRST", "SPECIAL_FIRST"}, rt \in RailTypes :
                _is_seat_available(trains[i], st, rt)

\* C11 witness: under GENERAL_FIRST the loop reserves a train that has
\* special seats only.
C11_Witness ==
    /\ pc = "reserve"
    /\ seat_type = "GENERAL_FIRST"
    /\ ~ trains[target].general
    /\ trains[target].special

\* C12: for a train with a seat of some class, GENERAL_ONLY gives the
\* general-class flag and SPECIAL_ONLY the special-class flag on both provider
\* branches, whatever the other class and the waiting list say.
C12_OnlyMeansOwnClass ==
    \A i \in DOMAIN trains :
        seat_available(trains[i]) =>
            \A rt \in RailTypes :
                /\ _is_seat_available(trains[i], "GENERAL_ONLY", rt) = trains[i].general
                /\ _is_seat_available(trains[i], "SPECIAL_ONLY", rt) = trains[i].special

\* C12 witness: under GENERAL_ONLY the scan passes over a train with special
\* seats only and an open waiting list, and reserves a later one.
C12_Witness ==
    /\ pc = "reserve"
    /\ seat_type = "GENERAL_ONLY"
    /\ \E k \in 1 .. Len(choice) :
         /\ choice[k] # target
         /\ ~ trains[choice[k]].general
         /\ trains[choice[k]].special
         /\ trains[choice[k]].standby
         /\ \E j \in (k + 1) .. Len(choice) : choice[j] = target

C14_CommittedIsFinal ==
    /\ reserved => pc \in {"pay", "notify", "success", "interrupted"}
    /\ answer = "no" => pc = "aborted"

\* C15: once the operator has interrupted, whatever the loop was doing
\* (polling, evaluating, backing off, recovering, awaiting the operator), the
\* run has left the loop: no except clause has taken the interrupt and no
\* call, reserve included, follows it.
C15_InterruptExits == sigint => pc = "interrupted"

\* C15 witness: the interrupt arrived at the "continue?" prompt of
\* _handle_error, after the notification and before an answer.
C15_Witness ==
    sigint /\ pc = "interrupted" /\ notified /\ ~ prompted /\ ~ reserved

\* C16: every delay slept by _sleep is at least RESERVE_INTERVAL_MIN (0.25 s):
\* it is the floor plus a non-negative draw, so a search that follows a
\* backoff comes at least 0.25 s after the one before it.
C16_DelayAtLeastFloor ==
    slept => /\ delay >= RESERVE_INTERVAL_MIN
             /\ delay - RESERVE_INTERVAL_MIN \in GammaDraws

\* C16 witness: a poll cycle without a qualifying train has slept exactly the
\* floor (a draw of zero) and is about to search again.
C16_Witness ==
    pc = "loop" /\ slept /\ cat = "None" /\ delay = RESERVE_INTERVAL_MIN

\* C19: an SRT error whose message holds the abnormal-access text, or an
\* SRTNetFunnelError, is handled as BotDetected whatever else its message
\* matches; the loop then runs rail.clear(), sleeps and polls again on the
\* same session, with no login, no notification and no prompt.
C19_BotDetectedClearsAndPolls ==
    /\ (ex.type \in {"SRTError", "SRTNetFunnelError"}
          /\ (SRT_BOT \in ex.msg \/ ex.type = "SRTNetFunnelError"))
           => cat = "BotDetected"
    /\ cat = "BotDetected" =>
           /\ pc \in {"clear", "sleep", "loop", "interrupted"}
           /\ ~ notified /\ ~ prompted /\ ~ relogged
           /\ pc = "sleep" => cleared
           /\ pc = "loop" => (cleared /\ slept)

\* C19 witness: an SRTError whose message matches the abnormal-access text
\* and the login text has had rail.clear() run and is about to sleep.
C19_Witness ==
    /\ pc = "sleep" /\ cat = "BotDetected" /\ cleared
    /\ ex.type = "SRTError" /\ SRT_BOT \in ex.msg /\ SRT_LOGIN \in ex.msg

\* C20: a sold-out error of either provider (no seats, high traffic, waiting
\* list closed or full) only makes the loop sleep and poll again: no
\* notification, no prompt, no login, no rail.clear(), the session untouched.
C20_SoldOutOnlySleeps ==
    cat = "SoldOutTransient" =>
        /\ pc \in {"sleep", "loop", "interrupted"}
        /\ ~ notified /\ ~ prompted /\ ~ relogged /\ ~ cleared
        /\ pc = "loop" => slept

\* C20 witness: a Korail sold-out error has been slept on and the loop is
\* about to search again.
C20_Witness ==
    pc = "loop" /\ cat = "SoldOutTransient" /\ rail_type = "KTX" /\ slept

\* C17: no step of the loop, recovery and re-login included, changes the
\* selection (choice, seat type), the passengers or the search parameters,
\* and every search_train call of the loop receives the parameters of the
\* initiating search.
C17_SelectionAndParamsFrozen ==
    [][config' = config /\ searched' = params /\ searched' = searched]_vars

\* C17 witness: a poll of the loop after the first one has searched and
\* scanned the whole selection.
C17_Witness ==
    /\ pc = "sleep" /\ ex = NoEx /\ scanned = Len(choice)
    /\ searched = BuildParams(total_count, rail_type)

\* the sum of the entered counts, class by class
RECURSIVE InfoTotal(_, _)
InfoTotal(inf, keys) ==
    IF keys = {} THEN 0
    ELSE LET key == CHOOSE x \in keys : TRUE
         IN inf[key] + InfoTotal(inf, keys \ {key})

\* C18: reserve() goes past the passenger validation, to the initiating
\* search and on to the loop, only with a total count of at least 1 and less
\* than 10; with a total of 0 or of 10 or more it returns and no search has
\* been issued.
C18_LoopOnlyWithValidTotal ==
    LET total == InfoTotal(info, DOMAIN info)
    IN /\ (pc \in {"initial_search", "choose", "options", "loop"} \/ searched # NoParams)
            => (total >= 1 /\ total < PassengerLimit /\ total_count = total)
       /\ (pc # "passengers" /\ (total = 0 \/ total >= PassengerLimit))
            => (pc = "returned" /\ searched = NoParams)

\* C18 witness: counts adding up to exactly 10 were entered and reserve()
\* has returned without a search.
C18_Witness ==
    /\ pc = "returned" /\ searched = NoParams
    /\ InfoTotal(info, DOMAIN info) = PassengerLimit

\* C21: after a JSONDecodeError the loop sleeps first and calls login() second;
\* the next search comes only after login() has returned, on the session it
\* returned, and the "continue?" prompt is not shown.
C21_MalformedSleepsThenRelogs ==
    cat = "MalformedResponse" =>
        /\ ~ prompted
        /\ pc \in {"sleep", "login", "set_login", "loop",
                   "crashed", "login_aborted", "interrupted"}
        /\ pc \in {"login", "set_login", "loop"} => slept
        /\ relogged => slept
        /\ pc = "loop" => (relogged /\ rail.is_login)

\* C21 witness: a JSONDecodeError has been slept on, login() has returned a
\* session and the loop is about to search on it.
C21_Witness ==
    pc = "loop" /\ cat = "MalformedResponse" /\ slept /\ relogged /\ rail.is_login

\* C22: a run books at most one reservation: once rail.reserve has returned a
\* reservation, the loop is never again at a rail.reserve call.
C22_AtMostOneReservation == ~ (reserved /\ pc = "reserve")

\* C23: the session the loop holds is always one that login() reported valid:
\* a client that is not logged in sends login() to set_login (new credentials
\* and another try, or abort) and is never returned; so in the SessionExpired
\* branches "not rail.is_login" is false and _handle_error is not reached.
C23_LoginReturnsValidSession ==
    /\ rail.is_login
    /\ cat = "SessionExpired" =>
           /\ ~ notified /\ ~ prompted
           /\ pc \in {"login", "set_login", "sleep", "loop",
                      "crashed", "login_aborted", "interrupted"}

\* C23 witness: in a SessionExpired branch login() has built a client that
\* is not logged in (or the constructor raised SRTError) and is asking the
\* operator for credentials; the loop still holds the old session.
C23_Witness ==
    pc = "set_login" /\ cat = "SessionExpired" /\ ~ relogged /\ rail.is_login

\* C24: rail.pay_with_card is called only after rail.reserve has returned,
\* and only with auto-pay on, a reservation that is not a waiting one and
\* the card marked configured; in every other case the call is not made and
\* _reserve goes on to the success notification.
C24_PayOnlyWhenDue ==
    /\ payCall \in {"paid", "refused", "raised"}
           => (reserved /\ pay /\ card = "ok" /\ reservation # "waiting")
    /\ (payCall \in {"paid", "refused"} /\ pc \in {"notify", "success"})
           => reservation = "seat"
    /\ (payCall = "skipped" /\ reservation # "none")
           => /\ reserved
              /\ ~ pay \/ reservation = "waiting" \/ card = "missing"
              /\ pc \in {"notify", "success", "interrupted"}
    /\ pc = "pay" => (reserved /\ payCall = "none")
    /\ pc = "success" => payCall \in {"skipped", "paid", "refused"}

\* C24 witness: auto-pay is on and the card is configured, but the
\* reservation is a waiting one: no payment call, and the success
\* notification is next.
C24_Witness ==
    /\ pc = "notify" /\ payCall = "skipped"
    /\ pay /\ card = "ok" /\ reservation = "waiting"

\* C25: whatever calls are made on the secret store, once a keyring call has
\* failed _keyring_available is False and stays so, no keyring call is made
\* afterwards (the keyring is left as it was and the plaintext store serves
\* the calls), and the plaintext warning has been printed once, never twice.
C25_KeyringFlagMonotone ==
    /\ [](failed => ~ _keyring_available)
    /\ [](~ lateCall)
    /\ [](warnings <= 1 /\ (failed <=> warnings = 1))
    /\ [][~ _keyring_available =>
              (~ _keyring_available' /\ keyring_store' = keyring_store)]_vars

\* C25 witness: after the failure a password was set, and it is in the
\* plaintext store and not in the keyring.
C25_Witness ==
    /\ failed /\ ~ _keyring_available /\ warnings = 1
    /\ \E key \in DOMAIN written :
         /\ written[key] # {}
         /\ _fallback_get(_fallback_store, key[1], key[2]) = written[key]
         /\ get_password(keyring_store, key[1], key[2]) # written[key]

\* C26: get_secret on a key that has been set or deleted returns what the
\* latest set_secret or delete_secret on that key left: the password set, or
\* None after a delete, whenever the keyring starts failing.
C26_GetReturnsLatestSet ==
    (got # << >> /\ got[1] \in DOMAIN written) => got[2] = written[got[1]]
====
